---------------------------- MODULE Spec2Model ----------------------------
(***************************************************************************)
(* greenboot: the post-boot health check and the boot-counter driven       *)
(* recovery of src/main.rs and src/handler/mod.rs.                         *)
(*                                                                         *)
(* The persistent state is the bootloader environment block, read and      *)
(* written through grub2-editenv.  It is modelled as the sequence of its   *)
(* "key=value" lines; a value is a sequence of one-character strings, so   *)
(* that writing (format!) and reading (parse::<i32>) are two different     *)
(* conversions.  One invocation of the binary runs one command; its        *)
(* position is pc, one step per function the command calls.                *)
(***************************************************************************)
EXTENDS Integers, Sequences, FiniteSets, TLC

(***************************************************************************)
(* Bounds of the model.                                                    *)
(***************************************************************************)
\* scripts per tier directory of one installation root
MaxScripts == 1
\* the largest value the configuration file gives GREENBOOT_MAX_BOOT_ATTEMPTS
MaxBudget == 1
\* the longest list of services poc_service_monitor is given
MaxServices == 2
\* how far below zero the bootloader is followed counting down
MaxBelowZero == 1

(***************************************************************************)
(* Program constants.                                                      *)
(***************************************************************************)
\* GREENBOOT_INSTALL_PATHS: 1 = /usr/lib/greenboot, 2 = /etc/greenboot
NumInstallPaths == 2
\* GreenbootConfig::set_default
DefaultMaxReboot == 3

\* i32::MAX, the range of parse::<i32> and of max_reboot
I32Max == 2147483647
I32Min == (-I32Max) - 1

(***************************************************************************)
(* Option<i32> and Result<(), Error>.                                      *)
(***************************************************************************)
None == [some |-> FALSE, v |-> 0]
Some(n) == [some |-> TRUE, v |-> n]

Ok == [ok |-> TRUE, msg |-> ""]
Err(m) == [ok |-> FALSE, msg |-> m]

(***************************************************************************)
(* Text: format!("{n}") of an i32 and str::parse::<i32>.                   *)
(***************************************************************************)
DigitChars == <<"0", "1", "2", "3", "4", "5", "6", "7", "8", "9">>
IsDigit(c) == \E d \in 1..10 : DigitChars[d] = c
DigitVal(c) == (CHOOSE d \in 1..10 : DigitChars[d] = c) - 1

RECURSIVE FormatNat(_)
FormatNat(n) ==
    IF n < 10 THEN <<DigitChars[n + 1]>>
    ELSE FormatNat(n \div 10) \o <<DigitChars[(n % 10) + 1]>>

\* FormatI32 losing the sign
FormatI32_NoSign(n) == FormatNat(IF n < 0 THEN -n ELSE n)

FormatI32(n) == IF n < 0 THEN <<"-">> \o FormatNat(-n) ELSE FormatNat(n)

\* checked_mul(10) then checked_add(d) (checked_sub(d) when negative): the
\* largest |acc| for which acc * 10 +- d stays in i32
MagnitudeLimit(d, neg) ==
    IF neg THEN (IF d = 0 THEN I32Max \div 10 ELSE (I32Max - (d - 1)) \div 10)
    ELSE (I32Max - d) \div 10

\* the digits of s, most significant first, accumulated with checked
\* arithmetic: None once a digit is invalid or the value leaves i32
RECURSIVE ParseDigits(_, _, _)
ParseDigits(s, acc, neg) ==
    IF s = <<>> THEN Some(acc)
    ELSE IF ~IsDigit(Head(s)) THEN None
    ELSE LET d == DigitVal(Head(s))
             mag == IF neg THEN -acc ELSE acc
         IN  IF mag > MagnitudeLimit(d, neg) THEN None
             ELSE ParseDigits(Tail(s), IF neg THEN acc * 10 - d ELSE acc * 10 + d, neg)

ParseI32(s) ==
    IF s = <<>> THEN None
    ELSE IF Head(s) \in {"+", "-"}
         THEN IF Len(s) = 1 THEN None
              ELSE ParseDigits(Tail(s), 0, Head(s) = "-")
         ELSE ParseDigits(s, 0, FALSE)

(***************************************************************************)
(* grub2-editenv - set / unset / list over the environment block.          *)
(***************************************************************************)
HasKey(env, key) == \E i \in 1..Len(env) : env[i].key = key

GrubSet(env, key, val) ==
    IF HasKey(env, key)
    THEN [i \in 1..Len(env) |->
             IF env[i].key = key THEN [key |-> key, val |-> val] ELSE env[i]]
    ELSE Append(env, [key |-> key, val |-> val])

GrubUnset(env, key) ==
    LET Keep(e) == e.key # key IN SelectSeq(env, Keep)

\* one line of `grub2-editenv - list`: the key, "=", the characters of the value
GrubLine(e) == <<e.key, "=">> \o e.val
GrubList(env) == [i \in 1..Len(env) |-> GrubLine(env[i])]

\* var.contains("boot_counter"): the key is one token of the line
ContainsBootCounter(line) == \E i \in 1..Len(line) : line[i] = "boot_counter"

\* var.split('=').last()
RECURSIVE LastField(_)
LastField(line) ==
    IF \E i \in 1..Len(line) : line[i] = "="
    THEN LastField(Tail(line))
    ELSE line

(***************************************************************************)
(* handler::get_boot_counter.  grub_ok is FALSE when grub2-editenv cannot  *)
(* be spawned.  The first line that mentions boot_counter decides.         *)
(***************************************************************************)
get_boot_counter(env, grub_ok) ==
    IF ~grub_ok THEN None
    ELSE LET lines == GrubList(env)
             hits == {i \in 1..Len(lines) : ContainsBootCounter(lines[i])}
         IN  IF hits = {} THEN None
             ELSE LET first == CHOOSE i \in hits : \A j \in hits : i <= j
                  IN  ParseI32(LastField(lines[first]))


(***************************************************************************)
(* The handlers of src/handler/mod.rs as functions of the environment      *)
(* block and of whether each external program can be spawned.  A Command   *)
(* that cannot be spawned is the io error `?` propagates; the exit status  *)
(* of grub2-editenv and of systemctl is never looked at.                   *)
(***************************************************************************)
\* handle_reboot looking at the counter even when forced
handle_reboot_AlwaysGated(env, force, grub_ok, systemctl_ok) ==
    LET counter == get_boot_counter(env, grub_ok)
    IN  IF counter.some /\ counter.v <= 0
        THEN [res |-> Err("countdown ended, check greenboot-rollback status"),
              reboot |-> FALSE]
        ELSE IF ~counter.some
        THEN [res |-> Err("boot_counter is not set"), reboot |-> FALSE]
        ELSE IF ~systemctl_ok
        THEN [res |-> Err("io error: systemctl"), reboot |-> FALSE]
        ELSE [res |-> Ok, reboot |-> TRUE]

\* handle_reboot never looking at the counter
handle_reboot_Ungated(env, force, grub_ok, systemctl_ok) ==
    IF ~systemctl_ok
    THEN [res |-> Err("io error: systemctl"), reboot |-> FALSE]
    ELSE [res |-> Ok, reboot |-> TRUE]

\* handle_reboot still rebooting with the counter at 0
handle_reboot_ZeroAllowed(env, force, grub_ok, systemctl_ok) ==
    LET counter == get_boot_counter(env, grub_ok)
    IN  IF ~force /\ counter.some /\ counter.v < 0
        THEN [res |-> Err("countdown ended, check greenboot-rollback status"),
              reboot |-> FALSE]
        ELSE IF ~force /\ ~counter.some
        THEN [res |-> Err("boot_counter is not set"), reboot |-> FALSE]
        ELSE IF ~systemctl_ok
        THEN [res |-> Err("io error: systemctl"), reboot |-> FALSE]
        ELSE [res |-> Ok, reboot |-> TRUE]

handle_reboot(env, force, grub_ok, systemctl_ok) ==
    LET counter == get_boot_counter(env, grub_ok)
    IN  IF ~force /\ counter.some /\ counter.v <= 0
        THEN [res |-> Err("countdown ended, check greenboot-rollback status"),
              reboot |-> FALSE]
        ELSE IF ~force /\ ~counter.some
        THEN [res |-> Err("boot_counter is not set"), reboot |-> FALSE]
        ELSE IF ~systemctl_ok
        THEN [res |-> Err("io error: systemctl"), reboot |-> FALSE]
        ELSE [res |-> Ok, reboot |-> TRUE]

\* ExitStatus::to_string of an exit code
StatusToString(code) == "exit status: " \o ToString(code)

\* handle_rollback taking an unreadable counter for an exhausted one
handle_rollback_UnsetIsExhausted(env, grub_ok, ostree_ok, code) ==
    LET counter == get_boot_counter(env, grub_ok)
    IN  IF ~counter.some \/ counter.v <= 0
        THEN IF ~ostree_ok
             THEN [res |-> Err("io error: rpm-ostree"), rollback |-> FALSE]
             ELSE IF code = 0
             THEN [res |-> Ok, rollback |-> TRUE]
             ELSE [res |-> Err(StatusToString(code)), rollback |-> TRUE]
        ELSE [res |-> Err("boot_counter is either unset or not equal to 0"),
              rollback |-> FALSE]

handle_rollback(env, grub_ok, ostree_ok, code) ==
    LET counter == get_boot_counter(env, grub_ok)
    IN  IF counter.some /\ counter.v <= 0
        THEN IF ~ostree_ok
             THEN [res |-> Err("io error: rpm-ostree"), rollback |-> FALSE]
             ELSE IF code = 0
             THEN [res |-> Ok, rollback |-> TRUE]
             ELSE [res |-> Err(StatusToString(code)), rollback |-> TRUE]
        ELSE [res |-> Err("boot_counter is either unset or not equal to 0"),
              rollback |-> FALSE]

\* set_boot_counter writing over a counter that is present
set_boot_counter_Overwrite(env, reboot_count, grub_ok) ==
    IF ~grub_ok
    THEN [env |-> env, res |-> Err("io error: grub2-editenv"), wrote |-> FALSE]
    ELSE [env |-> GrubSet(env, "boot_counter", FormatI32(reboot_count)),
          res |-> Ok, wrote |-> TRUE]

set_boot_counter(env, reboot_count, grub_ok) ==
    LET counter == get_boot_counter(env, grub_ok)
    IN  IF counter.some
        THEN [env |-> env, res |-> Ok, wrote |-> FALSE]
        ELSE IF ~grub_ok
        THEN [env |-> env, res |-> Err("io error: grub2-editenv"), wrote |-> FALSE]
        ELSE [env |-> GrubSet(env, "boot_counter", FormatI32(reboot_count)),
              res |-> Ok, wrote |-> TRUE]

unset_boot_counter(env, grub_ok) ==
    IF ~grub_ok
    THEN [env |-> env, res |-> Err("io error: grub2-editenv")]
    ELSE [env |-> GrubUnset(env, "boot_counter"), res |-> Ok]

\* handle_boot_success leaving the counter in place on success
handle_boot_success_KeepCounter(env, success, grub_ok) ==
    IF ~grub_ok
    THEN [env |-> env, res |-> Err("io error: grub2-editenv")]
    ELSE [env |-> GrubSet(env, "boot_success", IF success THEN <<"1">> ELSE <<"0">>),
          res |-> Ok]

handle_boot_success(env, success, grub_ok) ==
    IF ~grub_ok
    THEN [env |-> env, res |-> Err("io error: grub2-editenv")]
    ELSE IF success
    THEN [env |-> GrubUnset(GrubSet(env, "boot_success", <<"1">>), "boot_counter"),
          res |-> Ok]
    ELSE [env |-> GrubSet(env, "boot_success", <<"0">>), res |-> Ok]

\* motd_ok is FALSE when /etc/motd.d/boot-status cannot be opened or written
handle_motd(state, motd_ok) ==
    IF motd_ok THEN Ok ELSE Err("io error: /etc/motd.d/boot-status")

(***************************************************************************)
(* The Err arm of health_check as one function of the environment block:   *)
(* handle_boot_success(false)?, set_boot_counter(max_reboot) and           *)
(* handle_reboot(false), the errors of the last two being logged.  early   *)
(* is whether `?` returned before the counter and the reboot.              *)
(***************************************************************************)
FailureArm(env, budget, grub_ok, systemctl_ok) ==
    LET flag == handle_boot_success(env, FALSE, grub_ok)
        counter == set_boot_counter(flag.env, budget, grub_ok)
        reboot == handle_reboot(counter.env, FALSE, grub_ok, systemctl_ok)
    IN  IF ~flag.res.ok
        THEN [env |-> env, early |-> TRUE, wrote |-> FALSE, reboot |-> FALSE]
        ELSE [env |-> counter.env, early |-> FALSE, wrote |-> counter.wrote,
              reboot |-> reboot.reboot]

(***************************************************************************)
(* GreenbootConfig::get_config.  file is what the configuration file gives *)
(* for GREENBOOT_MAX_BOOT_ATTEMPTS: found is FALSE when the file or the key *)
(* is missing or not an integer; else get_int returned an i64, fits tells  *)
(* whether try_into::<i32> takes it, and int is its value when it fits.    *)
(***************************************************************************)
get_config(file) ==
    IF ~file.found THEN DefaultMaxReboot
    ELSE IF ~file.fits THEN DefaultMaxReboot
    ELSE file.int

(***************************************************************************)
(* Running the scripts of one tier directory.  outs is what the scripts    *)
(* the glob yields do, in glob order: "pass" (exit 0), "fail" (nonzero     *)
(* exit) or "spawn" (bash could not be spawned: output()? returns).        *)
(* ran is the number of scripts that ran, nonzero whether one of them      *)
(* exited nonzero, err whether the loop ended on the io error.             *)
(***************************************************************************)
FirstSpawnError(outs) ==
    IF \E i \in 1..Len(outs) : outs[i] = "spawn"
    THEN CHOOSE i \in 1..Len(outs) :
             outs[i] = "spawn" /\ \A j \in 1..(i - 1) : outs[j] # "spawn"
    ELSE Len(outs) + 1

RunScripts(outs) ==
    LET stop == FirstSpawnError(outs)
    IN  [ran |-> stop - 1,
         nonzero |-> \E i \in 1..(stop - 1) : outs[i] = "fail",
         err |-> stop <= Len(outs)]

(***************************************************************************)
(* State.                                                                  *)
(*   env            the bootloader environment block                       *)
(*   pc, cmd        position of the running invocation and its command     *)
(*   faults         the external programs that cannot be spawned, or whose *)
(*                  spawn may fail, during this invocation                 *)
(*   required_d     which installation roots hold check/required.d         *)
(*   max_reboot     config.max_reboot                                      *)
(*   root           index of the installation root a tier loop is at       *)
(*   path_exists, script_failure   the locals of run_diagnostics           *)
(*   run_status     what run_diagnostics returned                          *)
(*   result         what the command returned                              *)
(* History of the invocation, for stating properties:                      *)
(*   env0           the environment block when the invocation began        *)
(*   trace          the external effects, in order: a tier name for the    *)
(*                  scripts of that tier run in a row, "motd", the         *)
(*                  grub2-editenv writes, "reboot", "rollback"             *)
(*   nonzero        the tiers of which some script exited nonzero          *)
(*   spawn_err      the tiers of which a script could not be spawned       *)
(*   rollback_exit  the exit code of rpm-ostree rollback, None if not run  *)
(*   hist           the direct calls of the store handlers, as the tests   *)
(*                  of main.rs make them                                   *)
(*   cycle          the boots of one retry cycle (followed in SpecCycle)   *)
(* The service monitor has its own state:                                  *)
(*   mon            poc_service_monitor: its argument, its locals, cycle, what    *)
(*                  systemctl answers and what it returned                 *)
(***************************************************************************)
VARIABLES env, pc, cmd, faults, required_d, max_reboot, root, path_exists,
          script_failure, run_status, result, env0, trace, nonzero,
          spawn_err, rollback_exit, hist, cycle, mon

vars == <<env, pc, cmd, faults, required_d, max_reboot, root, path_exists,
          script_failure, run_status, result, env0, trace, nonzero,
          spawn_err, rollback_exit, hist, cycle, mon>>

Roots == 1..NumInstallPaths
FaultKinds == {"grub2-editenv", "systemctl", "rpm-ostree", "bash", "motd"}

grub_ok == "grub2-editenv" \notin faults
systemctl_ok == "systemctl" \notin faults
ostree_ok == "rpm-ostree" \notin faults

\* what GREENBOOT_MAX_BOOT_ATTEMPTS can be read as
ConfigFiles ==
    {[found |-> FALSE, fits |-> FALSE, int |-> 0]}
    \cup {[found |-> TRUE, fits |-> TRUE, int |-> n] : n \in 0..MaxBudget}
    \cup {[found |-> TRUE, fits |-> FALSE, int |-> 0]}

ScriptOuts == IF "bash" \in faults THEN {"pass", "fail", "spawn"}
              ELSE {"pass", "fail"}
ScriptRuns == UNION {[1..n -> ScriptOuts] : n \in 0..MaxScripts}
MotdOuts == IF "motd" \in faults THEN BOOLEAN ELSE {TRUE}
ExitCodes == {0, 1, 2}

\* the process is not running
Idle ==
    /\ pc = "idle"
    /\ cmd = "none"
    /\ faults = {}
    /\ required_d = [r \in Roots |-> FALSE]
    /\ max_reboot = DefaultMaxReboot
    /\ root = 1
    /\ path_exists = FALSE
    /\ script_failure = FALSE
    /\ run_status = Ok
    /\ result = Ok
    /\ env0 = <<>>
    /\ trace = <<>>
    /\ nonzero = {}
    /\ spawn_err = {}
    /\ rollback_exit = None

\* no retry cycle is followed
CycleOff == [on |-> FALSE, budget |-> 0, boot |-> 0, reboots |-> 0,
             checked |-> FALSE, live |-> FALSE]
\* poc_service_monitor has not been called
MonOff == [pc |-> "off", args |-> <<>>, services |-> <<>>, units |-> <<>>, i |-> 1,
           service_not_ok |-> <<>>, unforced_error |-> FALSE,
           queried |-> {}, result |-> Ok]

Init ==
    /\ env = <<>>
    /\ hist = <<>>
    /\ cycle = CycleOff
    /\ mon = MonOff
    /\ Idle

locals == <<required_d, max_reboot, cmd, faults, env0, mon>>
scripts == <<nonzero, spawn_err>>
diag == <<path_exists, script_failure>>

(***************************************************************************)
(* main: the command line chooses the command.                             *)
(***************************************************************************)
\* health_check up to its first call: get_config
HealthCheckBegin(fs) ==
    /\ pc = "idle"
    /\ \E file \in ConfigFiles, dirs \in [Roots -> BOOLEAN] :
          /\ cycle.on => /\ cycle.live
                          /\ ~cycle.checked
                          /\ get_config(file) = cycle.budget
          /\ max_reboot' = get_config(file)
          /\ required_d' = dirs
    /\ cmd' = "health_check"
    /\ faults' = fs
    /\ env0' = env
    /\ pc' = "motd_progress"
    /\ hist' = <<>>
    /\ cycle' = IF cycle.on THEN [cycle EXCEPT !.checked = TRUE] ELSE cycle
    /\ UNCHANGED <<env, root, diag, run_status, result, trace, scripts, rollback_exit, mon>>

TriggerRollbackBegin(fs) ==
    /\ pc = "idle"
    /\ cmd' = "rollback"
    /\ faults' = fs
    /\ env0' = env
    /\ pc' = "rollback"
    /\ hist' = <<>>
    /\ UNCHANGED <<env, required_d, max_reboot, root, diag, run_status, result,
                   trace, scripts, rollback_exit, cycle, mon>>

(***************************************************************************)
(* handle_motd at the three places health_check calls it.  Its result is   *)
(* dropped (.ok()) or logged (unwrap_or_else).                             *)
(***************************************************************************)
MotdState(at) ==
    IF at = "motd_progress" THEN "healthcheck is in progress"
    ELSE IF at = "motd_green" THEN "healthcheck passed - status is GREEN"
    ELSE "healthcheck failed - status is RED"

AfterMotd(at) ==
    IF at = "motd_progress" THEN "required"
    ELSE IF at = "motd_green" THEN "boot_success_true"
    ELSE "red"

\* AfterMotdResult with the error of handle_motd ending health_check
AfterMotdResult_Abort(at, r) == IF r.ok THEN AfterMotd(at) ELSE "done"

\* .ok() and unwrap_or_else(log): health_check goes on whatever r is
AfterMotdResult(at, r) == AfterMotd(at)

HandleMotd ==
    /\ pc \in {"motd_progress", "motd_green", "motd_red"}
    /\ \E motd_ok \in MotdOuts :
          LET r == handle_motd(MotdState(pc), motd_ok)
          IN  /\ trace' = IF r.ok THEN Append(trace, "motd") ELSE trace
              /\ pc' = AfterMotdResult(pc, r)
    /\ root' = 1
    /\ UNCHANGED <<env, locals, cycle, diag, run_status, result, scripts, rollback_exit, hist>>

(***************************************************************************)
(* run_diagnostics, one installation root of a tier loop per step.         *)
(***************************************************************************)
\* the trace names a tier once for the scripts run in a row
Tally(tier, r) ==
    /\ trace' = IF r.ran > 0 /\ (trace = <<>> \/ trace[Len(trace)] # tier)
                THEN Append(trace, tier)
                ELSE trace
    /\ nonzero' = IF r.nonzero THEN nonzero \cup {tier} ELSE nonzero
    /\ spawn_err' = IF r.err THEN spawn_err \cup {tier} ELSE spawn_err

\* PathExists with a later root without the directory overriding an earlier one
PathExists_LastRootDecides(seen, is_dir) == is_dir

\* path_exists once a root has been looked at: is_dir is whether this root
\* holds check/required.d (a root without it is skipped, not an error)
PathExists(seen, is_dir) == seen \/ is_dir

\* WantedFailure with a failing Wanted script counted as a failure
WantedFailure_Fatal(failure, r) == failure \/ r.nonzero

\* script_failure across the loops: a Required script that exits nonzero
\* sets it, a Wanted script that exits nonzero is only logged
RequiredFailure(failure, r) == failure \/ r.nonzero
WantedFailure(failure, r) == failure

\* where health_check goes with what run_diagnostics returned
AfterDiagnostics(status) == IF status.ok THEN "green" ELSE "motd_red"

RunRequired ==
    /\ pc = "required"
    /\ \E outs \in (IF required_d[root] THEN ScriptRuns ELSE {<<>>}) :
          LET r == RunScripts(outs)
              exists == PathExists(path_exists, required_d[root])
              status == IF r.err THEN Err("io error: bash")
                        ELSE Err("required.d not found")
              returns == r.err \/ (root = NumInstallPaths /\ ~exists)
          IN  /\ Tally("required", r)
              /\ path_exists' = exists
              /\ script_failure' = RequiredFailure(script_failure, r)
              /\ IF returns
                 THEN /\ run_status' = status
                      /\ pc' = AfterDiagnostics(status)
                      /\ root' = 1
                 ELSE /\ run_status' = run_status
                      /\ pc' = IF root = NumInstallPaths THEN "wanted" ELSE pc
                      /\ root' = IF root = NumInstallPaths THEN 1 ELSE root + 1
    /\ UNCHANGED <<env, locals, cycle, result, rollback_exit, hist>>

RunWanted ==
    /\ pc = "wanted"
    /\ \E outs \in ScriptRuns :
          LET r == RunScripts(outs)
              failure == WantedFailure(script_failure, r)
              status == IF r.err THEN Err("io error: bash")
                        ELSE IF failure THEN Err("health-check failed!")
                        ELSE Ok
              returns == r.err \/ root = NumInstallPaths
          IN  /\ Tally("wanted", r)
              /\ script_failure' = failure
              /\ IF returns
                 THEN /\ run_status' = status
                      /\ pc' = AfterDiagnostics(status)
                      /\ root' = 1
                 ELSE /\ run_status' = run_status
                      /\ pc' = pc
                      /\ root' = root + 1
    /\ UNCHANGED <<env, locals, cycle, path_exists, result, rollback_exit, hist>>

(***************************************************************************)
(* run_green and run_red; health_check logs their error and goes on.       *)
(***************************************************************************)
RunBestEffort(tier, then) ==
    \E outs \in ScriptRuns :
        LET r == RunScripts(outs)
            returns == r.err \/ root = NumInstallPaths
        IN  /\ Tally(tier, r)
            /\ pc' = IF returns THEN then ELSE pc
            /\ root' = IF returns THEN 1 ELSE root + 1

RunGreen ==
    /\ pc = "green"
    /\ RunBestEffort("green", "motd_green")
    /\ UNCHANGED <<env, locals, cycle, diag, run_status, result, rollback_exit, hist>>

RunRed ==
    /\ pc = "red"
    /\ RunBestEffort("red", "boot_success_false")
    /\ UNCHANGED <<env, locals, cycle, diag, run_status, result, rollback_exit, hist>>

(***************************************************************************)
(* The rest of health_check: handle_boot_success(..)?, then on the failure *)
(* branch set_boot_counter and handle_reboot(false), whose errors are      *)
(* logged, and bail!(e) with the error of run_diagnostics.                 *)
(***************************************************************************)
HandleBootSuccess ==
    /\ pc \in {"boot_success_true", "boot_success_false"}
    /\ LET success == (pc = "boot_success_true")
           r == handle_boot_success(env, success, grub_ok)
       IN  /\ env' = r.env
           /\ trace' = IF ~r.res.ok THEN trace
                       ELSE IF success
                       THEN trace \o <<"boot_success=1", "unset boot_counter">>
                       ELSE Append(trace, "boot_success=0")
           /\ IF r.res.ok /\ ~success
              THEN /\ pc' = "set_counter"
                   /\ result' = result
              ELSE /\ pc' = "done"
                   /\ result' = r.res
    /\ UNCHANGED <<locals, cycle, root, diag, run_status, scripts, rollback_exit, hist>>

SetBootCounter ==
    /\ pc = "set_counter"
    /\ LET r == set_boot_counter(env, max_reboot, grub_ok)
       IN  /\ env' = r.env
           /\ trace' = IF r.wrote THEN Append(trace, "set boot_counter") ELSE trace
    /\ pc' = "reboot"
    /\ UNCHANGED <<locals, cycle, root, diag, run_status, result, scripts, rollback_exit, hist>>

\* handle_reboot(false) of health_check, handle_reboot(true)? of trigger_rollback
HandleReboot ==
    /\ pc \in {"reboot", "reboot_forced"}
    /\ LET force == (pc = "reboot_forced")
           r == handle_reboot(env, force, grub_ok, systemctl_ok)
       IN  /\ trace' = IF r.reboot THEN Append(trace, "reboot") ELSE trace
           /\ result' = IF force THEN r.res ELSE run_status
           /\ cycle' = IF cycle.on /\ r.reboot /\ ~force
                        THEN [cycle EXCEPT !.reboots = @ + 1]
                        ELSE cycle
    /\ pc' = "done"
    /\ UNCHANGED <<env, locals, root, diag, run_status, scripts, rollback_exit, hist>>

(***************************************************************************)
(* trigger_rollback: handle_rollback, then unset_boot_counter()? and       *)
(* handle_reboot(true)?.                                                   *)
(***************************************************************************)
HandleRollback ==
    /\ pc = "rollback"
    /\ \E code \in ExitCodes :
          LET r == handle_rollback(env, grub_ok, ostree_ok, code)
          IN  /\ trace' = IF r.rollback THEN Append(trace, "rollback") ELSE trace
              /\ rollback_exit' = IF r.rollback THEN Some(code) ELSE None
              /\ IF r.res.ok
                 THEN /\ pc' = "unset_counter"
                      /\ result' = result
                 ELSE /\ pc' = "done"
                      /\ result' = Err("Rollback not initiated as " \o r.res.msg)
    /\ UNCHANGED <<env, locals, cycle, root, diag, run_status, scripts, hist>>

UnsetBootCounter ==
    /\ pc = "unset_counter"
    /\ LET r == unset_boot_counter(env, grub_ok)
       IN  /\ env' = r.env
           /\ trace' = IF r.res.ok THEN Append(trace, "unset boot_counter") ELSE trace
           /\ IF r.res.ok
              THEN /\ pc' = "reboot_forced"
                   /\ result' = result
              ELSE /\ pc' = "done"
                   /\ result' = r.res
    /\ UNCHANGED <<locals, cycle, root, diag, run_status, scripts, rollback_exit, hist>>

\* main returns: the process is gone, the environment block stays
Exit ==
    /\ pc = "done"
    /\ pc' = "idle"
    /\ cmd' = "none"
    /\ faults' = {}
    /\ required_d' = [r \in Roots |-> FALSE]
    /\ max_reboot' = DefaultMaxReboot
    /\ root' = 1
    /\ path_exists' = FALSE
    /\ script_failure' = FALSE
    /\ run_status' = Ok
    /\ result' = Ok
    /\ env0' = <<>>
    /\ trace' = <<>>
    /\ nonzero' = {}
    /\ spawn_err' = {}
    /\ rollback_exit' = None
    /\ cycle' = [cycle EXCEPT !.live = /\ @
                                       /\ get_boot_counter(env, TRUE).some
                                       /\ (cmd = "health_check" => "required" \in nonzero)]
    /\ UNCHANGED <<env, hist, mon>>

(***************************************************************************)
(* The surroundings.  The bootloader counts boot_counter down on a boot;   *)
(* another writer may leave a boot_counter that is no integer.  In a retry *)
(* cycle a boot comes after the health check of the boot before it.        *)
(***************************************************************************)
Boot ==
    /\ pc = "idle"
    /\ LET counter == get_boot_counter(env, TRUE)
       IN  /\ counter.some
           /\ counter.v > -MaxBelowZero
           /\ env' = GrubSet(env, "boot_counter", FormatI32(counter.v - 1))
    /\ hist' = <<>>
    /\ cycle.on => (cycle.live /\ cycle.checked)
    /\ cycle' = IF cycle.on
                 THEN [cycle EXCEPT !.boot = @ + 1, !.checked = FALSE]
                 ELSE cycle
    /\ UNCHANGED <<pc, locals, root, diag, run_status, result, trace, scripts, rollback_exit>>

GarbageValues == {<<>>, <<"x">>, <<"-">>, <<"1", "x">>, <<"+", "1">>}

Corrupt ==
    /\ pc = "idle"
    /\ \E val \in GarbageValues : env' = GrubSet(env, "boot_counter", val)
    /\ hist' = <<>>
    /\ UNCHANGED <<pc, locals, cycle, root, diag, run_status, result, trace, scripts, rollback_exit>>

(***************************************************************************)
(* The store handlers called directly, as test_boot_counter_set and        *)
(* test_boot_counter_re_set call them (and handle_boot_success, which      *)
(* writes the other line of the block).  hist keeps the last calls: the    *)
(* handler, its argument and what get_boot_counter gave before it.         *)
(***************************************************************************)
TestCounts == (-1..MaxBudget) \cup {10, 20}
\* the last three calls
Recent(h) == IF Len(h) > 3 THEN Tail(h) ELSE h

CallSetBootCounter ==
    /\ pc = "idle"
    /\ \E n \in TestCounts :
          /\ env' = set_boot_counter(env, n, TRUE).env
          /\ hist' = Recent(Append(hist, [op |-> "set", arg |-> n,
                                          before |-> get_boot_counter(env, TRUE)]))
    /\ UNCHANGED <<pc, locals, cycle, root, diag, run_status, result, trace, scripts, rollback_exit>>

CallUnsetBootCounter ==
    /\ pc = "idle"
    /\ env' = unset_boot_counter(env, TRUE).env
    /\ hist' = Recent(Append(hist, [op |-> "unset", arg |-> 0,
                                    before |-> get_boot_counter(env, TRUE)]))
    /\ UNCHANGED <<pc, locals, cycle, root, diag, run_status, result, trace, scripts, rollback_exit>>

CallHandleBootSuccess ==
    /\ pc = "idle"
    /\ \E success \in BOOLEAN :
          /\ env' = handle_boot_success(env, success, TRUE).env
          /\ hist' = Recent(Append(hist, [op |-> "boot_success",
                                          arg |-> IF success THEN 1 ELSE 0,
                                          before |-> get_boot_counter(env, TRUE)]))
    /\ UNCHANGED <<pc, locals, cycle, root, diag, run_status, result, trace, scripts, rollback_exit>>

(***************************************************************************)
(* poc_service_monitor.  units is what systemctl answers for a service:    *)
(* exists is "yes" (Ok(true)), "no" (Ok(false)) or "err"; status is the    *)
(* string Unit::status gives, or "err" when from_systemctl or status       *)
(* fails.  args keeps the list as it was passed.                           *)
(***************************************************************************)
ServiceNames == {"sshd", "podman"}
ServiceLists == UNION {[1..n -> ServiceNames] : n \in 0..MaxServices}
Units == [ServiceNames -> [exists : {"yes", "no", "err"},
                           status : {"Enabled", "Disabled", "err"}]]

Contains(seq, x) == \E i \in 1..Len(seq) : seq[i] = x

\* services.retain(|&v| !service_not_ok.contains(&v))
Retain(services, service_not_ok) ==
    LET Keep(v) == ~Contains(service_not_ok, v) IN SelectSeq(services, Keep)

\* Report with the auto-recoverable error taking precedence
Report_UnforcedFirst(service_not_ok, unforced_error, len) ==
    IF unforced_error THEN Err(ToString(-1))
    ELSE IF service_not_ok # <<>> THEN Err(ToString(len))
    ELSE Ok

\* the two bail! and the Ok(()) that end poc_service_monitor; len is the
\* usize the first bail! formats
Report(service_not_ok, unforced_error, len) ==
    IF service_not_ok # <<>> THEN Err(ToString(len))
    ELSE IF unforced_error THEN Err(ToString(-1))
    ELSE Ok

MonitorBegin ==
    /\ pc = "idle"
    /\ mon.pc = "off"
    /\ \E services \in ServiceLists, units \in Units :
          mon' = [pc |-> "exists", args |-> services, services |-> services,
                  units |-> units, i |-> 1, service_not_ok |-> <<>>,
                  unforced_error |-> FALSE, queried |-> {}, result |-> Ok]
    /\ UNCHANGED <<env, pc, cmd, faults, required_d, max_reboot, root, diag,
                   run_status, result, env0, trace, scripts, rollback_exit,
                   hist, cycle>>

\* the first loop, one service per step, then retain
MonitorExists ==
    /\ mon.pc = "exists"
    /\ IF mon.i <= Len(mon.services)
       THEN LET service == mon.services[mon.i]
            IN  mon' = [mon EXCEPT
                          !.i = @ + 1,
                          !.service_not_ok =
                              IF mon.units[service].exists = "no"
                              THEN Append(@, service) ELSE @]
       ELSE mon' = [mon EXCEPT
                      !.pc = "status",
                      !.i = 1,
                      !.services = Retain(@, mon.service_not_ok)]
    /\ UNCHANGED <<env, pc, cmd, faults, required_d, max_reboot, root, diag,
                   run_status, result, env0, trace, scripts, rollback_exit,
                   hist, cycle>>

\* the second loop, one service per step
MonitorStatus ==
    /\ mon.pc = "status"
    /\ IF mon.i <= Len(mon.services)
       THEN LET service == mon.services[mon.i]
                state == mon.units[service].status
            IN  mon' = [mon EXCEPT
                          !.i = @ + 1,
                          !.queried = @ \cup {service},
                          !.unforced_error = @ \/ state = "Enabled",
                          !.service_not_ok =
                              IF state \notin {"Enabled", "err"}
                              THEN Append(@, service) ELSE @]
       ELSE mon' = [mon EXCEPT !.pc = "report"]
    /\ UNCHANGED <<env, pc, cmd, faults, required_d, max_reboot, root, diag,
                   run_status, result, env0, trace, scripts, rollback_exit,
                   hist, cycle>>

\* the receiver of .len() is not named in the source: any usize
MonitorReport ==
    /\ mon.pc = "report"
    /\ \E len \in 0..MaxServices :
          mon' = [mon EXCEPT
                    !.pc = "done",
                    !.result = Report(mon.service_not_ok, mon.unforced_error, len)]
    /\ UNCHANGED <<env, pc, cmd, faults, required_d, max_reboot, root, diag,
                   run_status, result, env0, trace, scripts, rollback_exit,
                   hist, cycle>>

MonitorExit ==
    /\ mon.pc = "done"
    /\ mon' = MonOff
    /\ UNCHANGED <<env, pc, cmd, faults, required_d, max_reboot, root, diag,
                   run_status, result, env0, trace, scripts, rollback_exit,
                   hist, cycle>>

(***************************************************************************)
(* Specifications.  Spec: every external program can be spawned.           *)
(* SpecFault: an invocation may run with programs that cannot be spawned,  *)
(* and the environment block may hold a boot_counter that is no integer.   *)
(* SpecStore: the store handlers called directly on any environment block. *)
(***************************************************************************)
Step ==
    \/ HandleMotd
    \/ RunRequired
    \/ RunWanted
    \/ RunGreen
    \/ RunRed
    \/ HandleBootSuccess
    \/ SetBootCounter
    \/ HandleReboot
    \/ HandleRollback
    \/ UnsetBootCounter
    \/ Exit

Next ==
    \/ HealthCheckBegin({})
    \/ TriggerRollbackBegin({})
    \/ Step
    \/ Boot

\* at most one kind of fault in an invocation
FaultSets == {{}} \cup {{f} : f \in FaultKinds}

NextFault ==
    \/ \E fs \in FaultSets : HealthCheckBegin(fs)
    \/ \E fs \in FaultSets : TriggerRollbackBegin(fs)
    \/ Step
    \/ Boot
    \/ Corrupt

NextStore ==
    \/ CallSetBootCounter
    \/ CallUnsetBootCounter
    \/ CallHandleBootSuccess
    \/ Boot
    \/ Corrupt

\* one retry cycle: the counter unset at the first boot, the same
\* max_reboot at every boot, one health_check per boot; trigger_rollback
\* may be invoked at any boot.  The cycle is followed until a health check
\* finds no failing Required script or the counter is cleared.
CycleBudgets == {get_config(file) : file \in ConfigFiles}

InitCycle ==
    /\ env \in {<<>>, <<[key |-> "boot_success", val |-> <<"1">>]>>}
    /\ hist = <<>>
    /\ \E b \in CycleBudgets :
          cycle = [on |-> TRUE, budget |-> b, boot |-> 1, reboots |-> 0,
                   checked |-> FALSE, live |-> TRUE]
    /\ mon = MonOff
    /\ Idle

NextMonitor ==
    \/ MonitorBegin
    \/ MonitorExists
    \/ MonitorStatus
    \/ MonitorReport
    \/ MonitorExit

Spec == Init /\ [][Next]_vars
SpecMonitor == Init /\ [][NextMonitor]_vars
SpecCycle == InitCycle /\ [][Next]_vars
SpecFault == Init /\ [][NextFault]_vars
SpecStore == Init /\ [][NextStore]_vars

(***************************************************************************)
(* Properties.                                                             *)
(***************************************************************************)
Did(e) == \E i \in 1..Len(trace) : trace[i] = e
Count(e) == Cardinality({i \in 1..Len(trace) : trace[i] = e})
Before(a, b) ==
    \A i, j \in 1..Len(trace) : (trace[i] = a /\ trace[j] = b) => i < j

HealthCheckDone == pc = "done" /\ cmd = "health_check"
RollbackDone == pc = "done" /\ cmd = "rollback"
\* the boot counter in the store now, and when the invocation began
Counter == get_boot_counter(env, TRUE)
Counter0 == get_boot_counter(env0, TRUE)
\* what the invocation itself could read of the counter when it began
Readable0 == get_boot_counter(env0, grub_ok)
RequiredDirSomewhere == \E r \in Roots : required_d[r]
FlagIs(val) == \E i \in 1..Len(env) : env[i] = [key |-> "boot_success", val |-> val]

\* C1: a health_check in which a Required script exits nonzero returns a
\* failure, and leaves the boot counter at max_reboot if it was unset before
\* and at its previous value if it was set.
C1_FailureEstablishesCounter ==
    (HealthCheckDone /\ "required" \in nonzero) =>
        /\ ~result.ok
        /\ IF Counter0.some THEN Counter = Counter0
           ELSE Counter = Some(max_reboot)

C1_Witness ==
    /\ HealthCheckDone
    /\ "required" \in nonzero
    /\ ~Counter0.some
    /\ Counter = Some(max_reboot)
    /\ ~result.ok

\* C2: with the boot counter absent, unreadable or greater than 0,
\* trigger_rollback never runs the rollback, leaves the store as it was,
\* issues no reboot and returns an error.
C2_NoRollbackWithoutExhaustedCounter ==
    (cmd = "rollback" /\ (~Readable0.some \/ Readable0.v > 0)) =>
        /\ ~Did("rollback")
        /\ ~Did("reboot")
        /\ env = env0
        /\ pc \in {"rollback", "done"}
        /\ pc = "done" => ~result.ok

C2_Witness ==
    /\ RollbackDone
    /\ Readable0.some
    /\ Readable0.v > 0
    /\ ~result.ok
    /\ trace = <<>>

\* C3: trigger_rollback with boot counter <= 0 runs the rollback exactly
\* once; if it exits 0 the counter is cleared and then a forced reboot is
\* issued; if it exits nonzero the store is unchanged, no reboot is issued
\* and the error carries the exit status.
C3_RollbackOutcome ==
    (RollbackDone /\ Counter0.some /\ Counter0.v <= 0) =>
        /\ Count("rollback") = 1
        /\ rollback_exit.some
        /\ IF rollback_exit.v = 0
           THEN /\ result.ok
                /\ trace = <<"rollback", "unset boot_counter", "reboot">>
                /\ ~Counter.some
           ELSE /\ result = Err("Rollback not initiated as exit status: "
                                \o ToString(rollback_exit.v))
                /\ trace = <<"rollback">>
                /\ env = env0

C3_Witness ==
    /\ RollbackDone
    /\ Counter0 = Some(0)
    /\ rollback_exit = Some(0)
    /\ result.ok
    /\ Did("reboot")
    /\ ~Counter.some

\* C4, as the specification has it: on the failure branch of health_check a
\* reboot is always issued, whatever the boot counter is.
C4_RebootAlwaysIssued ==
    (HealthCheckDone /\ "required" \in nonzero) => Did("reboot")

\* C4, as the code has it: on the failure branch the reboot is gated by the
\* counter: it is issued exactly when the boot counter read after the
\* establishment step is present and greater than 0 (and grub2-editenv and
\* systemctl could be spawned); with the counter <= 0 no reboot is issued.
C4_RebootGatedByCounter ==
    (HealthCheckDone /\ "required" \in nonzero) =>
        (Did("reboot") <=>
            /\ grub_ok
            /\ systemctl_ok
            /\ Counter.some
            /\ Counter.v > 0)

C4_Witness ==
    /\ HealthCheckDone
    /\ "required" \in nonzero
    /\ Counter0 = Some(0)
    /\ ~Did("reboot")
    /\ Did("boot_success=0")

\* C5: health_check returns "required.d not found" if and only if no
\* installation root holds check/required.d; the directory under one root,
\* either one, is enough for the Required tier to decide the result.
C5_ConfigErrorIffNoRequiredDir ==
    HealthCheckDone =>
        /\ (result = Err("required.d not found")) <=> ~RequiredDirSomewhere
        /\ RequiredDirSomewhere => (result.ok <=> "required" \notin nonzero)

C5_Witness ==
    /\ HealthCheckDone
    /\ required_d[1]
    /\ ~required_d[2]
    /\ result.ok

\* C6: with check/required.d under no installation root,
\* health_check runs no Red script, does not write the boot-success flag,
\* does not establish the boot counter and issues no reboot.
C6_NoRecoveryOnConfigError ==
    (cmd = "health_check" /\ ~RequiredDirSomewhere) =>
        /\ ~Did("red")
        /\ ~Did("boot_success=0")
        /\ ~Did("set boot_counter")
        /\ ~Did("reboot")

\* C7: when every Required script exits 0 the health check passes, whatever
\* the Wanted, Red and Green scripts exit with.
C7_VerdictFromRequiredOnly ==
    (HealthCheckDone /\ RequiredDirSomewhere /\ "required" \notin nonzero) =>
        /\ result.ok
        /\ run_status.ok
        /\ ~Did("red")

C7_Witness ==
    /\ HealthCheckDone
    /\ "required" \notin nonzero
    /\ Did("required")
    /\ "wanted" \in nonzero
    /\ "green" \in nonzero
    /\ result.ok

\* C8: unset_boot_counter, set_boot_counter(n), get_boot_counter gives
\* Some(n) from any store; set_boot_counter(m) while a counter is present
\* changes nothing, so get_boot_counter still gives the present value.
LastCall == hist[Len(hist)]
C8_SetCounterRoundTrip ==
    /\ (Len(hist) >= 2 /\ hist[Len(hist) - 1].op = "unset" /\ LastCall.op = "set")
          => Counter = Some(LastCall.arg)
    /\ (Len(hist) >= 1 /\ LastCall.op = "set" /\ LastCall.before.some)
          => Counter = LastCall.before
    /\ (Len(hist) >= 1 /\ LastCall.op = "unset") => ~Counter.some

C8_Witness ==
    /\ Len(hist) = 3
    /\ hist[1].op = "unset"
    /\ hist[2].op = "set" /\ hist[2].arg = 10
    /\ hist[3].op = "set" /\ hist[3].arg = 20
    /\ Counter = Some(10)

\* C9: when check/required.d exists and no Required script fails,
\* health_check passes and leaves boot_success=1 and no boot counter,
\* whatever the counter was, and issues neither a reboot nor a rollback.
C9_PassClearsCounter ==
    (HealthCheckDone /\ RequiredDirSomewhere /\ "required" \notin nonzero) =>
        /\ result.ok
        /\ FlagIs(<<"1">>)
        /\ ~HasKey(env, "boot_counter")
        /\ ~Did("reboot")
        /\ ~Did("rollback")
        /\ ~Did("set boot_counter")

C9_Witness ==
    /\ HealthCheckDone
    /\ ~Did("required")
    /\ RequiredDirSomewhere
    /\ Counter0.some
    /\ result.ok
    /\ FlagIs(<<"1">>)
    /\ ~HasKey(env, "boot_counter")

\* C10: health_check never returns an error without having issued
\* a reboot or a rollback in the same invocation.
C10_FailureImpliesRebootOrRollback ==
    (HealthCheckDone /\ ~result.ok) => (Did("reboot") \/ Did("rollback"))

\* C11: in a retry cycle (counter unset at the first boot, the Required
\* checks failing at every boot, the bootloader counting down at every boot)
\* the failing health_check of boot b leaves the counter at
\* max_reboot - (b - 1) and reboots exactly while that is > 0, so that
\* health_check issues max_reboot reboots in all; from boot max_reboot + 1
\* on the counter is <= 0, no reboot is issued and trigger_rollback may run
\* the rollback; the rollback is never run with the counter > 0.
Min(a, b) == IF a < b THEN a ELSE b
C11_BoundedRetries ==
    /\ Did("rollback") => (Counter0.some /\ Counter0.v <= 0)
    /\ (cycle.on /\ cycle.live) =>
          /\ cycle.reboots <= cycle.budget
          /\ (HealthCheckDone /\ "required" \in nonzero) =>
                /\ Counter = Some(cycle.budget - (cycle.boot - 1))
                /\ Did("reboot") <=> cycle.boot <= cycle.budget
                /\ cycle.reboots = Min(cycle.boot, cycle.budget)
          /\ (pc = "idle" /\ cycle.checked /\ cycle.boot > cycle.budget) =>
                /\ Counter.some
                /\ Counter.v <= 0
                /\ handle_rollback(env, TRUE, TRUE, 0).rollback

C11_Witness ==
    /\ cycle.on
    /\ cycle.live
    /\ HealthCheckDone
    /\ "required" \in nonzero
    /\ cycle.budget >= 1
    /\ cycle.boot = cycle.budget + 1
    /\ cycle.reboots = cycle.budget
    /\ Counter = Some(0)
    /\ ~Did("reboot")

\* C12: a failing health_check that finds the boot counter present and
\* <= 0 runs the rollback and issues no reboot.
C12_ExhaustedFailureRollsBack ==
    (HealthCheckDone /\ "required" \in nonzero /\ Counter0.some /\ Counter0.v <= 0) =>
        /\ Did("rollback")
        /\ ~Did("reboot")

\* C13: no step of health_check or trigger_rollback changes a boot counter
\* that is present to another value: a step leaves the counter as it is,
\* or set_boot_counter makes an absent one max_reboot, or the counter is
\* removed on a passing health check or after a rollback that exited 0.
C13_Frame ==
    \/ env' = env
    \/ Counter' = Counter
    \/ /\ ~Counter.some
       /\ Counter' = Some(max_reboot)
       /\ pc = "set_counter"
    \/ /\ Counter.some
       /\ ~Counter'.some
       /\ \/ cmd = "health_check" /\ run_status.ok /\ pc = "boot_success_true"
          \/ cmd = "rollback" /\ rollback_exit = Some(0) /\ pc = "unset_counter"

C13_CounterNeverRewritten == [][pc # "idle" => C13_Frame]_vars

C13_Witness ==
    /\ HealthCheckDone
    /\ "required" \in nonzero
    /\ Counter0.some
    /\ Counter0.v # max_reboot
    /\ Counter = Counter0
    /\ Did("boot_success=0")

\* C14: in a health_check Red scripts run only if a Required script
\* failed, Green scripts only if the check succeeded, never both; every
\* Required script comes before every Wanted one, and every Wanted one
\* before every Red or Green one.
C14_TiersExclusiveAndOrdered ==
    cmd = "health_check" =>
        /\ Did("red") => "required" \in nonzero
        /\ Did("green") => (run_status.ok /\ "required" \notin nonzero)
        /\ ~(Did("red") /\ Did("green"))
        /\ Before("required", "wanted")
        /\ Before("required", "red") /\ Before("required", "green")
        /\ Before("wanted", "red") /\ Before("wanted", "green")

\* C15: on the failure branch of health_check the boot-success flag is
\* written false, then the Red scripts run, then the boot counter is
\* established, then the reboot is issued; the flag is already false when
\* a Red script runs.
C15_FailureBranchOrder ==
    (cmd = "health_check" /\ "required" \in nonzero) =>
        /\ Did("red") => Did("boot_success=0")
        /\ Before("boot_success=0", "red")
        /\ Before("red", "set boot_counter")
        /\ Before("set boot_counter", "reboot")

\* C16: when every Required script exits 0 and a Wanted script cannot be
\* launched, health_check passes, writes boot_success=1, and neither
\* establishes the boot counter nor reboots.
C16_WantedLaunchErrorIgnored ==
    (/\ HealthCheckDone
     /\ "wanted" \in spawn_err
     /\ "required" \notin (nonzero \cup spawn_err)) =>
        /\ result.ok
        /\ Did("boot_success=1")
        /\ ~Did("set boot_counter")
        /\ ~Did("reboot")

\* C17: an invocation that reads None for the boot counter (store
\* unreadable, key absent, value no integer) does what it does on a store
\* without the key: trigger_rollback returns the same error, the failure
\* branch of health_check writes the flag, establishes the counter and
\* reboots as it would on the unset store, and no rollback is run.
Unset0 == GrubUnset(env0, "boot_counter")
C17_NoneTreatedAsUnset ==
    ~Readable0.some =>
        /\ ~Did("rollback")
        /\ RollbackDone =>
              result = Err("Rollback not initiated as "
                           \o handle_rollback(Unset0, TRUE, ostree_ok, 0).res.msg)
        /\ (HealthCheckDone /\ "required" \in nonzero) =>
              LET unset == FailureArm(Unset0, max_reboot, TRUE, systemctl_ok)
              IN  /\ Did("boot_success=0") = ~unset.early
                  /\ Did("set boot_counter") = unset.wrote
                  /\ Did("reboot") = unset.reboot
                  /\ Counter = get_boot_counter(unset.env, TRUE)
                  /\ result = run_status

\* C17 without the unreadable store: the key absent and a value that is no
\* integer are treated alike
C17_AbsentAndGarbageAlike == grub_ok => C17_NoneTreatedAsUnset

\* C18: for a non-empty list poc_service_monitor returns a critical error
\* (the count it formats, never "-1") whenever a service does not exist or
\* exists and is not enabled, whatever the other services are; it returns
\* the auto-recoverable error "-1" when every service exists and is
\* enabled; it never returns Ok for a list with a missing or disabled
\* service, and never asks for the status of a service that does not exist.
NotFound(service) == mon.units[service].exists = "no"
Disabled(service) ==
    mon.units[service].exists = "yes" /\ mon.units[service].status = "Disabled"
EnabledUnverified(service) ==
    mon.units[service].exists = "yes" /\ mon.units[service].status = "Enabled"
CriticalErrors == {Err(ToString(len)) : len \in 0..MaxServices}
AutoRecoverable == Err(ToString(-1))

C18_ServiceClassifier ==
    /\ \A service \in mon.queried : ~NotFound(service)
    /\ (mon.pc = "done" /\ mon.args # <<>>) =>
          /\ AutoRecoverable \notin CriticalErrors
          /\ (\E i \in 1..Len(mon.args) :
                 NotFound(mon.args[i]) \/ Disabled(mon.args[i]))
                => mon.result \in CriticalErrors
          /\ (\A i \in 1..Len(mon.args) : EnabledUnverified(mon.args[i]))
                => mon.result = AutoRecoverable

C18_Witness ==
    /\ mon.pc = "done"
    /\ Len(mon.args) = 2
    /\ NotFound(mon.args[1])
    /\ EnabledUnverified(mon.args[2])
    /\ mon.unforced_error
    /\ mon.result \in CriticalErrors

\* C19: a health_check whose status writes may fail ends as one whose
\* status writes all succeed: the verdict follows from the Required tier
\* alone, the passing branch writes boot_success=1 and clears the counter,
\* the failing branch writes boot_success=0, establishes the counter if it
\* was unset and reboots while it is > 0.
C19_MotdFailureHarmless ==
    (HealthCheckDone /\ faults \subseteq {"motd"}) =>
        LET pass == RequiredDirSomewhere /\ "required" \notin nonzero
        IN  /\ result.ok <=> pass
            /\ result = run_status
            /\ pass =>
                  /\ Did("boot_success=1")
                  /\ ~Counter.some
                  /\ ~Did("red")
                  /\ ~Did("set boot_counter")
                  /\ ~Did("reboot")
            /\ ~pass =>
                  /\ Did("boot_success=0")
                  /\ ~Did("green")
                  /\ Did("set boot_counter") <=> ~Counter0.some
                  /\ Counter = IF Counter0.some THEN Counter0 ELSE Some(max_reboot)
                  /\ Did("reboot") <=> Counter.v > 0

C19_Witness ==
    /\ HealthCheckDone
    /\ faults = {"motd"}
    /\ ~Did("motd")
    /\ "required" \in nonzero
    /\ Did("red")
    /\ Did("boot_success=0")
    /\ Did("reboot")

\* C20: when no invocation is in progress, boot_success=1 is never in the
\* store together with a boot counter, and a health_check that returns an
\* error leaves boot_success=0 and a boot counter.
C20_FlagCounterInvariant ==
    /\ pc \in {"idle", "done"} => ~(FlagIs(<<"1">>) /\ HasKey(env, "boot_counter"))
    /\ (HealthCheckDone /\ ~result.ok) => (FlagIs(<<"0">>) /\ Counter.some)

C20_Witness ==
    /\ HealthCheckDone
    /\ ~result.ok
    /\ \E i \in 1..Len(env0) : env0[i] = [key |-> "boot_success", val |-> <<"1">>]
    /\ ~Counter0.some
    /\ FlagIs(<<"0">>)
    /\ Counter = Some(max_reboot)

=============================================================================
